---- MODULE Spec2Model ----
(***************************************************************************)
(* Model of prepare_data.py (index-tracking data preparation).             *)
(*                                                                         *)
(* A DataFrame is a record [index, cols]: index is the sequence of row     *)
(* labels (dates as day numbers), cols is a sequence of columns, each a    *)
(* sequence of cells as long as the index.  A cell is NaN (the empty       *)
(* tuple) or <<v>>.  Prices are positive integers; a return is the exact   *)
(* fraction <<num, den>> in lowest terms.                                  *)
(*                                                                         *)
(* The price source quotes strictly positive prices, so no return divides   *)
(* by zero.  pandas is not pinned by the repository: pct_change pads NaN    *)
(* before dividing under pandas older than 3.0 and does not from 3.0 on,   *)
(* so every use of it draws that default nondeterministically.             *)
(*                                                                         *)
(* Spec runs main(); SpecLib calls each helper once on drawn arguments.    *)
(*                                                                         *)
(* Calendar: day 1 is Wednesday 2024-02-28, so day 2 (Thu 2024-02-29) is a *)
(* month end, day 3 (Fri 2024-03-01) a week end, days 4 and 5 a weekend.   *)
(***************************************************************************)
EXTENDS Integers, Sequences, FiniteSets, TLC

VARIABLES pc, args, outdir, idx_prices, asset_prices, n_obs,
          idx_rets, asset_rets, files, meta, err, call, ret

vars == <<pc, args, outdir, idx_prices, asset_prices, n_obs,
          idx_rets, asset_rets, files, meta, err, call, ret>>

(* ------------------------------ bounds --------------------------------- *)

\* longest panel handed to a direct call of _forward_fill_limited
MaxLen == 4

\* longest panel handed to a direct call of _to_simple_returns
MaxRetLen == 3

\* last day of the axes handed to a direct call of _intersect_dates
MaxAxis == 3

\* number of trading days a panel handed to _resample_if_needed is drawn from
MaxResampleDays == 7

\* largest max_gap handed to a direct call of _forward_fill_limited
MaxGap == 2

\* number of trading days the price source may return rows for
MaxDays == 3

\* most rows of a panel handed to a direct call of _resample_if_needed
MaxRows == 4

\* largest --min-days given on the command line
MaxMinDays == 3

(* ------------------------------ values --------------------------------- *)

NaN == <<>>

IsNA(c) == c = NaN

PriceSet == {1, 2}

PriceCells == {NaN} \cup {<<p>> : p \in PriceSet}

None == [index |-> <<>>, cols |-> <<>>]

Range(s) == {s[i] : i \in 1..Len(s)}

Max(a, b) == IF a >= b THEN a ELSE b

Abs(x) == IF x < 0 THEN -x ELSE x

RECURSIVE Gcd(_, _)
Gcd(a, b) == IF b = 0 THEN a ELSE Gcd(b, a % b)

\* the exact value of p / q - 1, in lowest terms
SimpleReturn(p, q) ==
  LET g == Gcd(Abs(p - q), q) IN <<(p - q) \div g, q \div g>>

RECURSIVE SortedSeq(_)
SortedSeq(S) ==
  IF S = {} THEN <<>>
  ELSE LET m == CHOOSE x \in S : \A y \in S : x <= y
       IN <<m>> \o SortedSeq(S \ {m})

NRows(df) == Len(df.index)

NCols(df) == Len(df.cols)

\* the position of label d in the index (labels are unique)
Loc(df, d) == CHOOSE i \in 1..NRows(df) : df.index[i] = d

(* ----------------------------- calendar -------------------------------- *)

DaysPerWeek == 7

FirstFriday == 3

\* 2024-02-29, 2024-03-31, 2024-04-30, 2024-05-31 as day numbers
MonthEnds == <<2, 33, 63, 94>>

IsWeekend(d) == (d % DaysPerWeek) \in {4, 5}

\* the n-th trading day (Monday to Friday), counted from day 1
RECURSIVE TradingDaysFrom(_, _)
TradingDaysFrom(d, n) ==
  IF n = 0 THEN {}
  ELSE IF IsWeekend(d) THEN TradingDaysFrom(d + 1, n)
       ELSE {d} \cup TradingDaysFrom(d + 1, n - 1)

\* the Friday closing the week of day d (rule "W-FRI", bins closed right)
WeekEnd(d) == d + ((FirstFriday - d) % DaysPerWeek)

\* the last day of the calendar month of day d (rule "M")
MonthEnd(d) ==
  MonthEnds[CHOOSE k \in 1..Len(MonthEnds) :
              /\ d <= MonthEnds[k]
              /\ \A j \in 1..(k - 1) : d > MonthEnds[j]]

PeriodEnd(rule, d) == IF rule = "W-FRI" THEN WeekEnd(d) ELSE MonthEnd(d)

\* the bin labels from the first row's period to the last row's period
PeriodLabels(rule, first, last) ==
  IF rule = "W-FRI"
    THEN SortedSeq({f \in WeekEnd(first)..WeekEnd(last) :
                      f % DaysPerWeek = FirstFriday})
    ELSE SortedSeq({e \in Range(MonthEnds) :
                      MonthEnd(first) <= e /\ e <= MonthEnd(last)})

(* --------------------------- pandas operations ------------------------- *)

Ok(v) == [ok |-> TRUE, val |-> v, exc |-> ""]

Raise(e) == [ok |-> FALSE, val |-> None, exc |-> e]

\* DataFrame.ffill's column kernel: val is the last seen value, fill_count
\* the number of cells filled since it
RECURSIVE PadFrom(_, _, _, _, _)
PadFrom(col, i, val, fill_count, lim) ==
  IF i > Len(col) THEN <<>>
  ELSE IF IsNA(col[i])
         THEN IF fill_count >= lim
                THEN <<col[i]>> \o PadFrom(col, i + 1, val, fill_count, lim)
                ELSE <<val>> \o PadFrom(col, i + 1, val, fill_count + 1, lim)
         ELSE <<col[i]>> \o PadFrom(col, i + 1, col[i], 0, lim)

PadM(col, lim) == PadFrom(col, 1, NaN, 0, Len(col))

Pad(col, lim) == PadFrom(col, 1, NaN, 0, lim)

\* DataFrame.ffill(limit=limit); pandas rejects a limit below 1
FFill(df, limit) ==
  IF limit <= 0 THEN Raise("ValueError")
  ELSE Ok([index |-> df.index,
           cols  |-> [c \in 1..NCols(df) |-> Pad(df.cols[c], limit)]])

\* DataFrame.dropna(how="all"): keep the rows with at least one defined cell
RowsKept(df) ==
  {i \in 1..NRows(df) : \E c \in 1..NCols(df) : ~IsNA(df.cols[c][i])}

\* the rows of df at the positions in keep, in index order
TakeRows(df, keep) ==
  LET pos == SortedSeq(keep)
  IN [index |-> [k \in 1..Len(pos) |-> df.index[pos[k]]],
      cols  |-> [c \in 1..NCols(df) |->
                   [k \in 1..Len(pos) |-> df.cols[c][pos[k]]]]]

DropNaAllM(df) == df

DropNaAll(df) == TakeRows(df, RowsKept(df))

\* DataFrame.pct_change(): data / data.shift(1) - 1.  Before pandas 3.0 the
\* default fill_method pads every NaN first (no limit); from 3.0 it does not.
PctChange(df, pad_default) ==
  LET data(c) == IF pad_default THEN Pad(df.cols[c], NRows(df)) ELSE df.cols[c]
      cell(c, i) ==
        IF i = 1 \/ IsNA(data(c)[i]) \/ IsNA(data(c)[i - 1]) THEN NaN
        ELSE <<SimpleReturn(data(c)[i][1], data(c)[i - 1][1])>>
  IN [index |-> df.index,
      cols  |-> [c \in 1..NCols(df) |-> [i \in 1..NRows(df) |-> cell(c, i)]]]

\* GroupBy.last() of one column over one bin: the last defined cell, if any
LastM(df, c, rows) ==
  IF rows = {} THEN NaN
  ELSE df.cols[c][CHOOSE i \in rows : \A j \in rows : j <= i]

Last(df, c, rows) ==
  LET defined == {i \in rows : ~IsNA(df.cols[c][i])}
  IN IF defined = {} THEN NaN
     ELSE df.cols[c][CHOOSE i \in defined : \A j \in defined : j <= i]

\* DataFrame.resample(rule).last()
ResampleLast(df, rule) ==
  IF NRows(df) = 0 THEN df
  ELSE LET labels == PeriodLabels(rule, df.index[1], df.index[NRows(df)])
           bin(k) == {i \in 1..NRows(df) : PeriodEnd(rule, df.index[i]) = labels[k]}
       IN [index |-> labels,
           cols  |-> [c \in 1..NCols(df) |->
                        [k \in 1..Len(labels) |-> Last(df, c, bin(k))]]]

\* Index.intersection of two unique ascending indexes
IndexIntersectionM(ia, ib) ==
  LET common == SelectSeq(ia, LAMBDA d : d \in Range(ib))
  IN [k \in 1..Len(common) |-> common[Len(common) + 1 - k]]

IndexIntersection(ia, ib) == SelectSeq(ia, LAMBDA d : d \in Range(ib))

\* df.loc[labels]: the rows of df with these labels, in the order given
LocLabels(df, labels) ==
  [index |-> labels,
   cols  |-> [c \in 1..NCols(df) |->
                [k \in 1..Len(labels) |-> df.cols[c][Loc(df, labels[k])]]]]

\* pd.concat(series, axis=1) followed by sort_index: outer join on the dates
ConcatColumns(series) ==
  LET dates == SortedSeq(UNION {Range(series[c].index) : c \in 1..Len(series)})
      cell(c, k) ==
        IF dates[k] \in Range(series[c].index)
          THEN series[c].cols[1][Loc(series[c], dates[k])]
          ELSE NaN
  IN [index |-> dates,
      cols  |-> [c \in 1..Len(series) |-> [k \in 1..Len(dates) |-> cell(c, k)]]]

(* --------------------------- frequency tags ---------------------------- *)

Tags == { <<"D">>, <<"W">>, <<"M">>, <<"d">>, <<"w">>, <<"m">>,
          <<"D", "A", "I", "L", "Y">>, <<"d", "a", "i", "l", "y">>,
          <<"Q">>, <<>> }

UpperCharM(ch) == ch

UpperChar(ch) ==
  CASE ch = "d" -> "D"  [] ch = "w" -> "W"  [] ch = "m" -> "M"
    [] ch = "a" -> "A"  [] ch = "i" -> "I"  [] ch = "l" -> "L"
    [] ch = "y" -> "Y"  [] ch = "q" -> "Q"  [] OTHER -> ch

\* str.upper()
Upper(tag) == [i \in 1..Len(tag) |-> UpperChar(tag[i])]

\* argparse choices=["D", "W", "M"]
FreqChoices == { <<"D">>, <<"W">>, <<"M">> }

(* ------------------------- prepare_data helpers ------------------------ *)

resample_if_needed(df, freq) ==
  IF Upper(freq) \in { <<"D">>, <<"D", "A", "I", "L", "Y">> } THEN Ok(df)
  ELSE IF Upper(freq) = <<"W">> THEN Ok(ResampleLast(df, "W-FRI"))
  ELSE IF Upper(freq) = <<"M">> THEN Ok(ResampleLast(df, "M"))
  ELSE Raise("KeyError")

forward_fill_limited(df, max_gap) == FFill(df, max_gap)

to_simple_returns(prices, pad_default) == DropNaAll(PctChange(prices, pad_default))

intersect_dates(a, b) ==
  LET common == IndexIntersection(a.index, b.index)
  IN <<LocLabels(a, common), LocLabels(b, common)>>

(* ------------------------------ the source ----------------------------- *)

IndexSymbol == 0

AssetSymbols == <<1, 2>>

\* the dates the price source may hold rows for
FetchDays == TradingDaysFrom(2, MaxDays)

\* the price the source quotes for a symbol on a day
PriceOf(sym, d) == 1 + ((sym + d) % 2)

\* _fetch_stooq when the source holds rows for the dates S: an empty answer
\* raises, otherwise the close column sorted ascending
fetch_stooq(sym, S) ==
  IF S = {} THEN Raise("ValueError")
  ELSE LET dates == SortedSeq(S)
       IN Ok([index |-> dates,
              cols  |-> << [k \in 1..Len(dates) |-> <<PriceOf(sym, dates[k])>>] >>])

\* _fetch_many over two symbols: the first failing fetch aborts the build
fetch_many(S1, S2) ==
  LET r1 == fetch_stooq(AssetSymbols[1], S1)
      r2 == fetch_stooq(AssetSymbols[2], S2)
  IN IF ~r1.ok THEN r1
     ELSE IF ~r2.ok THEN r2
     ELSE Ok(ConcatColumns(<<r1.val, r2.val>>))

(* ------------------------------- state --------------------------------- *)

MaxGapDefault == 3

OutputFiles == <<"prices_assets.csv", "prices_index.csv",
                 "returns_assets.csv", "returns_index.csv">>

MetaFile == "metadata.json"

NoArgs == [freq |-> <<>>, min_days |-> 0]

NoErr == [kind |-> "", actual |-> 0, required |-> 0]

NoMeta == [frequency |-> <<>>, n_observations |-> 0]

NoCall == [fn |-> "", a |-> None, b |-> None, g |-> 0, tag |-> <<>>, pad |-> FALSE]

NoRet == Raise("")

Init ==
  /\ pc = "start"
  /\ args = NoArgs
  /\ outdir = FALSE
  /\ idx_prices = None
  /\ asset_prices = None
  /\ n_obs = 0
  /\ idx_rets = None
  /\ asset_rets = None
  /\ files = <<>>
  /\ meta = NoMeta
  /\ err = NoErr
  /\ call = NoCall
  /\ ret = NoRet

Fail(kind, actual, required) ==
  /\ pc' = "failed"
  /\ err' = [kind |-> kind, actual |-> actual, required |-> required]

(* ------------------------------ main() --------------------------------- *)

\* parse_args: --freq must be one of the choices, --min-days is an int
ParseArgs ==
  /\ pc = "start"
  /\ \E freq \in Tags, min_days \in 0..MaxMinDays :
       IF freq \in FreqChoices
         THEN /\ args' = [freq |-> freq, min_days |-> min_days]
              /\ pc' = "makedirs"
              /\ err' = err
         ELSE /\ args' = args
              /\ Fail("SystemExit", 0, 0)
  /\ UNCHANGED <<outdir, idx_prices, asset_prices, n_obs, idx_rets, asset_rets,
                 files, meta, call, ret>>

MakeDirs ==
  /\ pc = "makedirs"
  /\ outdir' = TRUE
  /\ pc' = "fetch_index"
  /\ UNCHANGED <<args, idx_prices, asset_prices, n_obs, idx_rets, asset_rets,
                 files, meta, err, call, ret>>

FetchIndex ==
  /\ pc = "fetch_index"
  /\ \E S \in SUBSET FetchDays :
       LET r == fetch_stooq(IndexSymbol, S)
       IN IF r.ok
            THEN /\ idx_prices' = r.val
                 /\ pc' = "fetch_assets"
                 /\ err' = err
            ELSE /\ idx_prices' = idx_prices
                 /\ Fail("NoData", 0, 0)
  /\ UNCHANGED <<args, outdir, asset_prices, n_obs, idx_rets, asset_rets,
                 files, meta, call, ret>>

FetchAssets ==
  /\ pc = "fetch_assets"
  /\ \E S1 \in SUBSET FetchDays, S2 \in SUBSET FetchDays :
       LET r == fetch_many(S1, S2)
       IN IF r.ok
            THEN /\ asset_prices' = r.val
                 /\ pc' = "clean"
                 /\ err' = err
            ELSE /\ asset_prices' = asset_prices
                 /\ Fail("NoData", 0, 0)
  /\ UNCHANGED <<args, outdir, idx_prices, n_obs, idx_rets, asset_rets,
                 files, meta, call, ret>>

Clean ==
  /\ pc = "clean"
  /\ LET ra == forward_fill_limited(asset_prices, MaxGapDefault)
         ri == forward_fill_limited(idx_prices, MaxGapDefault)
     IN IF ra.ok /\ ri.ok
          THEN /\ asset_prices' = ra.val
               /\ idx_prices' = ri.val
               /\ pc' = "resample"
               /\ err' = err
          ELSE /\ UNCHANGED <<asset_prices, idx_prices>>
               /\ Fail("ValueError", 0, 0)
  /\ UNCHANGED <<args, outdir, n_obs, idx_rets, asset_rets, files, meta, call, ret>>

Resample ==
  /\ pc = "resample"
  /\ IF Upper(args.freq) # <<"D">>
       THEN LET ra == resample_if_needed(asset_prices, args.freq)
                ri == resample_if_needed(idx_prices, args.freq)
            IN IF ra.ok /\ ri.ok
                 THEN /\ asset_prices' = ra.val
                      /\ idx_prices' = ri.val
                      /\ pc' = "align"
                      /\ err' = err
                 ELSE /\ UNCHANGED <<asset_prices, idx_prices>>
                      /\ Fail("KeyError", 0, 0)
       ELSE /\ UNCHANGED <<asset_prices, idx_prices, err>>
            /\ pc' = "align"
  /\ UNCHANGED <<args, outdir, n_obs, idx_rets, asset_rets, files, meta, call, ret>>

Align ==
  /\ pc = "align"
  /\ LET r == intersect_dates(asset_prices, idx_prices)
     IN /\ asset_prices' = r[1]
        /\ idx_prices' = r[2]
  /\ pc' = "gate"
  /\ UNCHANGED <<args, outdir, n_obs, idx_rets, asset_rets, files, meta, err,
                 call, ret>>

GateFailsM(n, min_days) == n <= min_days

\* the sanity check: too few common observations
GateFails(n, min_days) == n < min_days

Gate ==
  /\ pc = "gate"
  /\ n_obs' = NRows(asset_prices)
  /\ IF GateFails(n_obs', args.min_days)
       THEN Fail("TooFew", n_obs', args.min_days)
       ELSE /\ pc' = "returns"
            /\ err' = err
  /\ UNCHANGED <<args, outdir, idx_prices, asset_prices, idx_rets, asset_rets,
                 files, meta, call, ret>>

\* both pct_change calls run under the same installed pandas
Returns ==
  /\ pc = "returns"
  /\ \E pad_default \in BOOLEAN :
       /\ asset_rets' = to_simple_returns(asset_prices, pad_default)
       /\ idx_rets' = to_simple_returns(idx_prices, pad_default)
  /\ pc' = "realign"
  /\ UNCHANGED <<args, outdir, idx_prices, asset_prices, n_obs, files, meta, err,
                 call, ret>>

ReAlign ==
  /\ pc = "realign"
  /\ LET r == intersect_dates(asset_rets, idx_rets)
     IN /\ asset_rets' = r[1]
        /\ idx_rets' = r[2]
  /\ pc' = "save"
  /\ UNCHANGED <<args, outdir, idx_prices, asset_prices, n_obs, files, meta, err,
                 call, ret>>

\* one to_csv call: it writes the next table, or raises and ends the run
WriteCsv ==
  /\ pc = "save"
  /\ \/ /\ files' = Append(files, OutputFiles[Len(files) + 1])
        /\ pc' = IF Len(files') = Len(OutputFiles) THEN "meta" ELSE "save"
        /\ err' = err
     \/ /\ files' = files
        /\ Fail("OSError", 0, 0)
  /\ UNCHANGED <<args, outdir, idx_prices, asset_prices, n_obs, idx_rets,
                 asset_rets, meta, call, ret>>

n_observationsM(rets) == NRows(rets) + 1

n_observations(rets) == NRows(rets)

WriteMeta ==
  /\ pc = "meta"
  /\ \/ /\ meta' = [frequency |-> Upper(args.freq),
                    n_observations |-> n_observations(asset_rets)]
        /\ files' = Append(files, MetaFile)
        /\ pc' = "done"
        /\ err' = err
     \/ /\ UNCHANGED <<meta, files>>
        /\ Fail("OSError", 0, 0)
  /\ UNCHANGED <<args, outdir, idx_prices, asset_prices, n_obs, idx_rets,
                 asset_rets, call, ret>>

Next ==
  \/ ParseArgs
  \/ MakeDirs
  \/ FetchIndex
  \/ FetchAssets
  \/ Clean
  \/ Resample
  \/ Align
  \/ Gate
  \/ Returns
  \/ ReAlign
  \/ WriteCsv
  \/ WriteMeta

Spec == Init /\ [][Next]_vars

(* ----------------------- direct calls of the helpers ------------------- *)

\* a panel over the days 1..n with the given columns
Frame(n, columns) == [index |-> [i \in 1..n |-> i], cols |-> columns]

\* a one-column table over the dates S with the given cells
Table(S, col) == [index |-> SortedSeq(S), cols |-> <<col>>]

TablesOver(days) ==
  UNION {{Table(S, col) : col \in [1..Cardinality(S) -> PriceCells]} :
           S \in SUBSET days}

ResampleDays == TradingDaysFrom(FirstFriday, MaxResampleDays)

ResampleInputs ==
  UNION {{Table(S, col) : col \in [1..Cardinality(S) -> PriceCells]} :
           S \in {T \in SUBSET ResampleDays :
                    1 <= Cardinality(T) /\ Cardinality(T) <= MaxRows}}

Idle == pc = "start" /\ call = NoCall

LibUnchanged ==
  UNCHANGED <<pc, args, outdir, idx_prices, asset_prices, n_obs, idx_rets,
              asset_rets, files, meta, err>>

CallForwardFill ==
  /\ Idle
  /\ \E n \in 0..MaxLen, g \in 0..MaxGap :
       \E col \in [1..n -> PriceCells] :
         /\ call' = [NoCall EXCEPT !.fn = "ffill", !.a = Frame(n, <<col>>), !.g = g]
         /\ ret' = forward_fill_limited(Frame(n, <<col>>), g)
  /\ LibUnchanged

CallReturns ==
  /\ Idle
  /\ \E n \in 0..MaxRetLen, pad_default \in BOOLEAN :
       \E c1 \in [1..n -> PriceCells], c2 \in [1..n -> PriceCells] :
         /\ call' = [NoCall EXCEPT !.fn = "returns", !.a = Frame(n, <<c1, c2>>),
                                   !.pad = pad_default]
         /\ ret' = Ok(to_simple_returns(Frame(n, <<c1, c2>>), pad_default))
  /\ LibUnchanged

CallIntersect ==
  /\ Idle
  /\ \E a \in TablesOver(1..MaxAxis), b \in TablesOver(1..MaxAxis) :
       /\ call' = [NoCall EXCEPT !.fn = "intersect", !.a = a, !.b = b]
       /\ ret' = Ok(intersect_dates(a, b))
  /\ LibUnchanged

CallResample ==
  /\ Idle
  /\ \E df \in ResampleInputs, tag \in Tags :
       /\ call' = [NoCall EXCEPT !.fn = "resample", !.a = df, !.tag = tag]
       /\ ret' = resample_if_needed(df, tag)
  /\ LibUnchanged

NextLib ==
  \/ CallForwardFill
  \/ CallReturns
  \/ CallIntersect
  \/ CallResample

SpecLib == Init /\ [][NextLib]_vars

(* ------------------------------ properties ----------------------------- *)

HasNaN(df) == \E c \in 1..NCols(df), i \in 1..NRows(df) : IsNA(df.cols[c][i])

HasAllNaNRow(df) ==
  \E i \in 1..NRows(df) : \A c \in 1..NCols(df) : IsNA(df.cols[c][i])

\* C1 as stated: after a successful run neither return table has an
\* undefined cell.
C1_NoUndefinedCell ==
  pc = "done" => ~HasNaN(idx_rets) /\ ~HasNaN(asset_rets)

\* C1 amended: after a successful run the index return table has no undefined
\* cell and the asset return table has no row whose cells are all undefined;
\* single asset cells may be undefined.
C1_NoUndefinedRow ==
  pc = "done" => ~HasNaN(idx_rets) /\ ~HasAllNaNRow(asset_rets)

C1_Witness ==
  pc = "done" /\ NRows(asset_rets) >= 2 /\ HasNaN(asset_rets)

\* the maximal runs <<s, e>> of undefined cells of col that follow a defined cell
GapRuns(col) ==
  {r \in (2..Len(col)) \X (2..Len(col)) :
     /\ r[1] <= r[2]
     /\ ~IsNA(col[r[1] - 1])
     /\ \A i \in r[1]..r[2] : IsNA(col[i])
     /\ (r[2] = Len(col) \/ ~IsNA(col[r[2] + 1]))}

Leading(col) == {i \in 1..Len(col) : \A j \in 1..i : IsNA(col[j])}

FillCalled == call.fn = "ffill" /\ ret.ok

\* C2 as stated: a run longer than g stays undefined as a whole, a run of at
\* most g cells is filled with the prior value, leading cells are never filled.
C2_WholeRunOrNothing ==
  FillCalled =>
    LET col == call.a.cols[1]
        out == ret.val.cols[1]
    IN /\ \A r \in GapRuns(col) :
            IF r[2] - r[1] + 1 > call.g
              THEN \A i \in r[1]..r[2] : IsNA(out[i])
              ELSE \A i \in r[1]..r[2] : out[i] = col[r[1] - 1]
       /\ \A i \in Leading(col) : IsNA(out[i])

\* C2 amended: for g >= 1 the call returns, and in every run of undefined
\* cells that follows a defined value exactly the first g cells take that
\* value, the rest of a longer run staying undefined; leading undefined cells
\* are never filled and defined cells are unchanged.
C2_FirstCellsOfRun ==
  /\ (call.fn = "ffill" /\ call.g >= 1) => ret.ok
  /\ FillCalled =>
       LET col == call.a.cols[1]
           out == ret.val.cols[1]
       IN /\ ret.val.index = call.a.index
          /\ Len(out) = Len(col)
          /\ \A r \in GapRuns(col) : \A i \in r[1]..r[2] :
               out[i] = IF i - r[1] + 1 <= call.g THEN col[r[1] - 1] ELSE NaN
          /\ \A i \in Leading(col) : IsNA(out[i])
          /\ \A i \in 1..Len(col) : ~IsNA(col[i]) => out[i] = col[i]

C2_Witness ==
  /\ FillCalled
  /\ \E r \in GapRuns(call.a.cols[1]) :
       /\ r[2] - r[1] + 1 > call.g
       /\ ~IsNA(ret.val.cols[1][r[1]])
       /\ IsNA(ret.val.cols[1][r[2]])

\* C3: with maximum gap 0 the call returns a panel equal to its input.
C3_ZeroGapIdentity ==
  (call.fn = "ffill" /\ call.g = 0) => (ret.ok /\ ret.val = call.a)

\* the cell of column c at date t, undefined when the row was dropped
CellAt(df, c, t) ==
  IF t \in Range(df.index) THEN df.cols[c][Loc(df, t)] ELSE NaN

\* C4: the return at row t > 1 is defined, and is P_t / P_(t-1) - 1, exactly
\* when the prices at rows t and t - 1 are both defined.
C4_DefinedIffBothPrices ==
  call.fn = "returns" =>
    \A c \in 1..NCols(call.a), t \in 2..NRows(call.a) :
      LET p == call.a.cols[c][t]
          q == call.a.cols[c][t - 1]
      IN IF ~IsNA(p) /\ ~IsNA(q)
           THEN CellAt(ret.val, c, t) = <<SimpleReturn(p[1], q[1])>>
           ELSE IsNA(CellAt(ret.val, c, t))

Ascending(seq) == \A i \in 1..Len(seq), j \in 1..Len(seq) : i < j => seq[i] < seq[j]

KeepsValues(out, in) ==
  /\ NCols(out) = NCols(in)
  /\ \A c \in 1..NCols(out) : \A k \in 1..NRows(out) : \A i \in 1..NRows(in) :
       in.index[i] = out.index[k] => out.cols[c][k] = in.cols[c][i]

\* C7: both tables returned by the aligner have as date axis the set
\* intersection of the two input axes in ascending order, each keeping its
\* own values at those dates.
C7_AxisIsIntersection ==
  call.fn = "intersect" =>
    LET ra == ret.val[1]
        rb == ret.val[2]
    IN /\ ra.index = rb.index
       /\ Range(ra.index) = Range(call.a.index) \cap Range(call.b.index)
       /\ Ascending(ra.index)
       /\ \A c \in 1..NCols(ra) : Len(ra.cols[c]) = NRows(ra)
       /\ \A c \in 1..NCols(rb) : Len(rb.cols[c]) = NRows(rb)
       /\ KeepsValues(ra, call.a)
       /\ KeepsValues(rb, call.b)

C7_Witness ==
  /\ call.fn = "intersect"
  /\ NRows(ret.val[1]) >= 1
  /\ NRows(ret.val[1]) < NRows(call.a)
  /\ NRows(ret.val[2]) < NRows(call.b)
  /\ HasNaN(ret.val[1])

Daily == <<"D", "A", "I", "L", "Y">>

IdentityTags == { <<"D">>, <<"d">>, Daily, <<"d", "a", "i", "l", "y">> }

RuleTags == { <<"W">>, <<"w">>, <<"M">>, <<"m">> }

\* C8 as stated: every tag other than exactly D, W or M is rejected, and D
\* returns the panel unchanged.
C8_OnlyExactTags ==
  call.fn = "resample" =>
    /\ call.tag \notin FreqChoices => ~ret.ok
    /\ call.tag = <<"D">> => (ret.ok /\ ret.val = call.a)

\* C8 amended: the tag is compared without regard to letter case and DAILY
\* is accepted beside D: the call fails exactly for the tags whose upper-case
\* form is none of D, DAILY, W, M, and D or DAILY returns the panel unchanged.
C8_CaseInsensitiveTags ==
  call.fn = "resample" =>
    /\ ret.ok <=> call.tag \in IdentityTags \cup RuleTags
    /\ ~ret.ok => ret.exc = "KeyError"
    /\ call.tag \in IdentityTags => ret.val = call.a

C8_Witness ==
  /\ call.fn = "resample"
  /\ call.tag = <<"d", "a", "i", "l", "y">>
  /\ ret.ok
  /\ ret.val = call.a

IsFriday(f) == f % 7 = 3

\* C9: frequency W gives exactly one row per Friday-ending week from the
\* week of the first row to the week of the last, three rows for three
\* weeks, each cell the last defined observation of its column in that week.
C9_WeeklyLastDefined ==
  (call.fn = "resample" /\ call.tag = <<"W">>) =>
    LET in == call.a
        out == ret.val
        first == in.index[1]
        last == in.index[NRows(in)]
        seen(c, f) == {i \in 1..NRows(in) :
                         /\ f - 6 <= in.index[i]
                         /\ in.index[i] <= f
                         /\ ~IsNA(in.cols[c][i])}
    IN /\ ret.ok
       /\ Ascending(out.index)
       /\ Range(out.index) = {f \in first..(last + 6) : IsFriday(f)}
       /\ (\E f \in first..(first + 6) :
             IsFriday(f) /\ f + 8 <= last /\ last <= f + 14) => NRows(out) = 3
       /\ \A c \in 1..NCols(in) : \A k \in 1..NRows(out) :
            LET s == seen(c, out.index[k])
            IN IF s = {} THEN IsNA(out.cols[c][k])
               ELSE \E i \in s : /\ \A j \in s : j <= i
                                  /\ out.cols[c][k] = in.cols[c][i]

C9_Witness ==
  /\ call.fn = "resample"
  /\ call.tag = <<"W">>
  /\ NRows(ret.val) = 3
  /\ \E k \in 1..NRows(ret.val) : \E i \in 1..NRows(call.a) :
       /\ WeekEnd(call.a.index[i]) = ret.val.index[k]
       /\ IsNA(call.a.cols[1][i])
       /\ \A j \in 1..NRows(call.a) : j > i => call.a.index[j] > ret.val.index[k]
       /\ ~IsNA(ret.val.cols[1][k])

PastGate == pc \in {"returns", "realign", "save", "meta", "done"}

\* C5: the run fails at the gate, with the actual and required counts, exactly
\* when the aligned price panel has fewer rows than the minimum; the failing
\* run has computed no returns and written nothing.
C5_GateIffTooFew ==
  /\ err.kind = "TooFew" =>
       /\ pc = "failed"
       /\ err.actual = NRows(asset_prices)
       /\ err.required = args.min_days
       /\ NRows(asset_prices) < args.min_days
       /\ NRows(asset_prices) = NRows(idx_prices)
       /\ asset_rets = None /\ idx_rets = None
       /\ files = <<>> /\ meta = NoMeta
  /\ PastGate => NRows(asset_prices) >= args.min_days
  /\ (pc = "failed" /\ err.kind \in {"SystemExit", "NoData"}) =>
       (asset_rets = None /\ idx_rets = None)

C5_Witness ==
  /\ pc = "failed"
  /\ err.kind = "TooFew"
  /\ err.actual = 2
  /\ err.required = 3

\* C6: a failed run, whatever the failing stage, has persisted no output.
C6_NoPartialOutput ==
  pc = "failed" => files = <<>>

\* C10: the recorded observation count is the row count of the re-aligned
\* return tables and at most max(n - 1, 0) for n aligned price rows.
C10_RecordedCount ==
  pc = "done" =>
    /\ meta.n_observations = NRows(asset_rets)
    /\ meta.n_observations = NRows(idx_rets)
    /\ n_obs = NRows(asset_prices)
    /\ meta.n_observations <= Max(n_obs - 1, 0)

C10_Witness ==
  /\ pc = "done"
  /\ n_obs >= args.min_days
  /\ args.min_days > 0
  /\ meta.n_observations < args.min_days

====
